---- MODULE Spec2Model ----
(***************************************************************************)
(* Model of the tiktaktoes session store (internal/game/service.go,        *)
(* internal/models/game.go): the map of game sessions, the move            *)
(* validation engine and the seat bookkeeping.                             *)
(*                                                                         *)
(* One action per exported Service method.  Every action is the whole      *)
(* method body, executed under Service.mu, so it is one atomic step.       *)
(***************************************************************************)
EXTENDS Integers, Sequences, FiniteSets, TLC

VARIABLES
    games,      \* Service.games : map[string]*models.GameState
    call,       \* the call on the Service that is returning to its caller:
                \* its arguments and the error it returns (NoCall between calls)
    prev,       \* Service.games as that call found it
    accepted,   \* history: per session, the marks of the moves accepted since
                \*          the session was (re)initialised by NewGameState
    claimed,    \* history, kept by SpecSeats only: per session, the marks whose
                \*          seat a CreateGame or JoinGame call that has returned claimed
    hub,        \* the Hub: the observers per session identifier, and the
                \*          goroutines holding Hub.mu for reading
    chans,      \* the channels the SSE handlers made: what each holds, and
                \*          whether it is closed
    obs,        \* the observer handlers (handleWebSocket, handleSSE): where
                \*          each is, and the session its path names
    bc,         \* the goroutines in Broadcast: where each is in its two loops
    thr,        \* the request goroutines: where each is in its handler, its
                \*          request and its locals
    mu,         \* Service.mu: the goroutine that holds it for writing, or Free
    seen,       \* history: per observer, the session state its client was
                \*          last sent, as serialized or rendered
    served      \* history: the number of requests the handlers have taken

storevars == <<games, call, prev, accepted, claimed>>
hubvars == <<hub, chans, obs, bc>>
reqvars == <<thr, mu, seen, served>>
vars == <<storevars, hubvars, reqvars>>

----------------------------------------------------------------------------
(* models/game.go *)

PlayerX == "X"
PlayerO == "O"
Empty == ""

\* type Board [9]Player : indices 0..8
BoardSize == 9
Cells == 0..(BoardSize - 1)

\* mutation of NewGameState: O has the first turn
NewGameStateOFirst(id) ==
    [ ID            |-> id,
      Board         |-> [i \in Cells |-> Empty],
      CurrentTurn   |-> PlayerO,
      Winner        |-> Empty,
      IsOver        |-> FALSE,
      IsDraw        |-> FALSE,
      PlayerXJoined |-> FALSE,
      PlayerOJoined |-> FALSE ]

\* NewGameState(id): Board{} is nine zero values (""), the two seat flags are
\* not named in the literal and so are false.
NewGameState(id) ==
    [ ID            |-> id,
      Board         |-> [i \in Cells |-> Empty],
      CurrentTurn   |-> PlayerX,
      Winner        |-> Empty,
      IsOver        |-> FALSE,
      IsDraw        |-> FALSE,
      PlayerXJoined |-> FALSE,
      PlayerOJoined |-> FALSE ]

----------------------------------------------------------------------------
(* game/service.go *)

NoErr == "nil"
ErrNotFound == "game not found"
ErrInvalidMove == "invalid move"
ErrNotYourTurn == "not your turn"
ErrGameOver == "game is over"
ErrPositionTaken == "position already taken"
ErrGameFull == "game is full, already has two players"
ErrSlotTaken == "that player slot is already taken"
ErrInvalidPlayer == "invalid player, must be X or O"

\* mutation of winConditions: the anti-diagonal mistyped
winConditionsTypo ==
    << <<0, 1, 2>>, <<3, 4, 5>>, <<6, 7, 8>>,
       <<0, 3, 6>>, <<1, 4, 7>>, <<2, 5, 8>>,
       <<0, 4, 8>>, <<2, 4, 7>> >>

winConditions ==
    << <<0, 1, 2>>, <<3, 4, 5>>, <<6, 7, 8>>,
       <<0, 3, 6>>, <<1, 4, 7>>, <<2, 5, 8>>,
       <<0, 4, 8>>, <<2, 4, 6>> >>

\* the loop of checkWinner from condition number k on: the first condition
\* whose three cells hold the same non-empty mark decides
RECURSIVE checkWinnerFrom(_, _)
checkWinnerFrom(board, k) ==
    IF k > Len(winConditions) THEN Empty
    ELSE LET a == winConditions[k][1]
             b == winConditions[k][2]
             c == winConditions[k][3]
         IN  IF board[a] # Empty /\ board[a] = board[b] /\ board[b] = board[c]
             THEN board[a]
             ELSE checkWinnerFrom(board, k + 1)

\* mutation of checkWinner: no line is ever found
checkWinnerNever(board) == Empty
checkWinner(board) == checkWinnerFrom(board, 1)

\* mutation of isBoardFull: the loop stops one cell early
isBoardFullShort(board) == \A i \in 0..(BoardSize - 2) : board[i] # Empty

isBoardFull(board) == \A i \in Cells : board[i] # Empty

\* mutation of MakeMoveErr: the IsOver check is missing
MakeMoveErrNoGameOver(gs, gameID, move) ==
    IF gameID \notin DOMAIN gs THEN ErrNotFound
    ELSE IF move.Position < 0 \/ move.Position > 8 THEN ErrInvalidMove
    ELSE IF gs[gameID].Board[move.Position] # Empty THEN ErrPositionTaken
    ELSE IF move.Player # gs[gameID].CurrentTurn THEN ErrNotYourTurn
    ELSE NoErr

\* mutation of MakeMoveErr: the turn is checked before the position's range
MakeMoveErrTurnBeforeRange(gs, gameID, move) ==
    IF gameID \notin DOMAIN gs THEN ErrNotFound
    ELSE IF gs[gameID].IsOver THEN ErrGameOver
    ELSE IF move.Player # gs[gameID].CurrentTurn THEN ErrNotYourTurn
    ELSE IF move.Position < 0 \/ move.Position > 8 THEN ErrInvalidMove
    ELSE IF gs[gameID].Board[move.Position] # Empty THEN ErrPositionTaken
    ELSE NoErr

\* mutation of MakeMoveErr: the turn is checked before the cell's occupancy
MakeMoveErrTurnBeforeTaken(gs, gameID, move) ==
    IF gameID \notin DOMAIN gs THEN ErrNotFound
    ELSE IF gs[gameID].IsOver THEN ErrGameOver
    ELSE IF move.Position < 0 \/ move.Position > 8 THEN ErrInvalidMove
    ELSE IF move.Player # gs[gameID].CurrentTurn THEN ErrNotYourTurn
    ELSE IF gs[gameID].Board[move.Position] # Empty THEN ErrPositionTaken
    ELSE NoErr

\* mutation of MakeMoveErr: the turn check is missing
MakeMoveErrNoTurn(gs, gameID, move) ==
    IF gameID \notin DOMAIN gs THEN ErrNotFound
    ELSE IF gs[gameID].IsOver THEN ErrGameOver
    ELSE IF move.Position < 0 \/ move.Position > 8 THEN ErrInvalidMove
    ELSE IF gs[gameID].Board[move.Position] # Empty THEN ErrPositionTaken
    ELSE NoErr

\* mutation of MakeMoveErr: the mover must have claimed the seat of the mark
MakeMoveErrSeated(gs, gameID, move) ==
    IF gameID \notin DOMAIN gs THEN ErrNotFound
    ELSE IF gs[gameID].IsOver THEN ErrGameOver
    ELSE IF move.Position < 0 \/ move.Position > 8 THEN ErrInvalidMove
    ELSE IF gs[gameID].Board[move.Position] # Empty THEN ErrPositionTaken
    ELSE IF move.Player # gs[gameID].CurrentTurn THEN ErrNotYourTurn
    ELSE IF move.Player = PlayerX /\ ~gs[gameID].PlayerXJoined THEN ErrNotYourTurn
    ELSE IF move.Player = PlayerO /\ ~gs[gameID].PlayerOJoined THEN ErrNotYourTurn
    ELSE NoErr

\* mutation of MakeMoveErr: the range check comes before the game-over check
MakeMoveErrRangeBeforeOver(gs, gameID, move) ==
    IF gameID \notin DOMAIN gs THEN ErrNotFound
    ELSE IF move.Position < 0 \/ move.Position > 8 THEN ErrInvalidMove
    ELSE IF gs[gameID].IsOver THEN ErrGameOver
    ELSE IF gs[gameID].Board[move.Position] # Empty THEN ErrPositionTaken
    ELSE IF move.Player # gs[gameID].CurrentTurn THEN ErrNotYourTurn
    ELSE NoErr

\* the validation chain of MakeMove: the first check that applies returns
MakeMoveErr(gs, gameID, move) ==
    IF gameID \notin DOMAIN gs THEN ErrNotFound
    ELSE IF gs[gameID].IsOver THEN ErrGameOver
    ELSE IF move.Position < 0 \/ move.Position > 8 THEN ErrInvalidMove
    ELSE IF gs[gameID].Board[move.Position] # Empty THEN ErrPositionTaken
    ELSE IF move.Player # gs[gameID].CurrentTurn THEN ErrNotYourTurn
    ELSE NoErr

\* mutation of SwitchTurn: the turn is left with the mover
SwitchTurnStuck(turn) == turn

\* "Switch turns"
SwitchTurn(turn) == IF turn = PlayerX THEN PlayerO ELSE PlayerX

\* mutation of ApplyMove: the turn is switched after every move
ApplyMoveFlipsAlways(game, move) ==
    LET board == [game.Board EXCEPT ![move.Position] = move.Player]
        winner == checkWinner(board)
        turn == SwitchTurn(game.CurrentTurn)
    IN  IF winner # Empty
        THEN [game EXCEPT !.Board = board, !.Winner = winner, !.IsOver = TRUE,
                          !.CurrentTurn = turn]
        ELSE IF isBoardFull(board)
        THEN [game EXCEPT !.Board = board, !.IsDraw = TRUE, !.IsOver = TRUE,
                          !.CurrentTurn = turn]
        ELSE [game EXCEPT !.Board = board, !.CurrentTurn = turn]

\* mutation of ApplyMove: the full board is tested before the winner
ApplyMoveDrawFirst(game, move) ==
    LET board == [game.Board EXCEPT ![move.Position] = move.Player]
        winner == checkWinner(board)
    IN  IF isBoardFull(board)
        THEN [game EXCEPT !.Board = board, !.IsDraw = TRUE, !.IsOver = TRUE,
                          !.Winner = winner]
        ELSE IF winner # Empty
        THEN [game EXCEPT !.Board = board, !.Winner = winner, !.IsOver = TRUE]
        ELSE [game EXCEPT !.Board = board,
                          !.CurrentTurn = SwitchTurn(game.CurrentTurn)]

\* the mutation of MakeMove, after validation: write the cell, then
\* winner / full board / switch turns
ApplyMove(game, move) ==
    LET board == [game.Board EXCEPT ![move.Position] = move.Player]
        winner == checkWinner(board)
    IN  IF winner # Empty
        THEN [game EXCEPT !.Board = board, !.Winner = winner, !.IsOver = TRUE]
        ELSE IF isBoardFull(board)
        THEN [game EXCEPT !.Board = board, !.IsDraw = TRUE, !.IsOver = TRUE]
        ELSE [game EXCEPT !.Board = board,
                          !.CurrentTurn = SwitchTurn(game.CurrentTurn)]

\* mutation of JoinGameErr: the check of O's seat reads X's flag
JoinGameErrWrongFlag(gs, gameID, player) ==
    IF gameID \notin DOMAIN gs THEN ErrNotFound
    ELSE IF player # PlayerX /\ player # PlayerO THEN ErrInvalidPlayer
    ELSE IF player = PlayerX /\ gs[gameID].PlayerXJoined THEN ErrSlotTaken
    ELSE IF player = PlayerO /\ gs[gameID].PlayerXJoined THEN ErrSlotTaken
    ELSE IF gs[gameID].PlayerXJoined /\ gs[gameID].PlayerOJoined THEN ErrGameFull
    ELSE NoErr

\* mutation of JoinGameErr: the full-game check comes before the seat checks
JoinGameErrFullFirst(gs, gameID, player) ==
    IF gameID \notin DOMAIN gs THEN ErrNotFound
    ELSE IF player # PlayerX /\ player # PlayerO THEN ErrInvalidPlayer
    ELSE IF gs[gameID].PlayerXJoined /\ gs[gameID].PlayerOJoined THEN ErrGameFull
    ELSE IF player = PlayerX /\ gs[gameID].PlayerXJoined THEN ErrSlotTaken
    ELSE IF player = PlayerO /\ gs[gameID].PlayerOJoined THEN ErrSlotTaken
    ELSE NoErr

\* the validation chain of JoinGame
JoinGameErr(gs, gameID, player) ==
    IF gameID \notin DOMAIN gs THEN ErrNotFound
    ELSE IF player # PlayerX /\ player # PlayerO THEN ErrInvalidPlayer
    ELSE IF player = PlayerX /\ gs[gameID].PlayerXJoined THEN ErrSlotTaken
    ELSE IF player = PlayerO /\ gs[gameID].PlayerOJoined THEN ErrSlotTaken
    ELSE IF gs[gameID].PlayerXJoined /\ gs[gameID].PlayerOJoined THEN ErrGameFull
    ELSE NoErr

\* "Join"
ApplyJoin(game, player) ==
    IF player = PlayerX
    THEN [game EXCEPT !.PlayerXJoined = TRUE]
    ELSE [game EXCEPT !.PlayerOJoined = TRUE]

\* mutation of CreatedGame: the creator's mark moves first
CreatedGameCreatorFirst(id, creator) ==
    IF creator = PlayerX THEN [NewGameState(id) EXCEPT !.PlayerXJoined = TRUE]
    ELSE IF creator = PlayerO
         THEN [NewGameState(id) EXCEPT !.PlayerOJoined = TRUE, !.CurrentTurn = PlayerO]
    ELSE NewGameState(id)

\* the session CreateGame stores: NewGameState plus the creator's seat
CreatedGame(id, creator) ==
    IF creator = PlayerX THEN [NewGameState(id) EXCEPT !.PlayerXJoined = TRUE]
    ELSE IF creator = PlayerO THEN [NewGameState(id) EXCEPT !.PlayerOJoined = TRUE]
    ELSE NewGameState(id)

ResetGameErr(gs, gameID) ==
    IF gameID \notin DOMAIN gs THEN ErrNotFound ELSE NoErr

\* mutation of ResetState: the turn of the old session is carried over
ResetStateKeepsTurn(game, gameID) ==
    [NewGameState(gameID) EXCEPT !.CurrentTurn = game.CurrentTurn]

\* mutation of ResetState: the board of the old session is carried over
ResetStateKeepsBoard(game, gameID) ==
    [NewGameState(gameID) EXCEPT !.Board = game.Board]

\* the session ResetGame stores in place of the old one
ResetState(game, gameID) == NewGameState(gameID)

\* s.games[id] = game
Store(gs, id, game) ==
    [k \in DOMAIN gs \cup {id} |-> IF k = id THEN game ELSE gs[k]]

----------------------------------------------------------------------------
(* Inputs *)

\* uuid.New().String()[:8] is eight hex digits of a random UUID: nothing in
\* CreateGame excludes an identifier that is already a key of s.games, so the
\* identifier is a free choice among the identifiers the generator can give.
GameIDs == {"1f0e9a3c"}
\* an identifier the generator has not produced
UnknownID == "nonexistent"
AllIDs == GameIDs \cup {UnknownID}

\* positions are Go ints: the ones of the board and MaxOverrun beyond each end
MaxOverrun == 1
Positions == (0 - MaxOverrun)..(BoardSize - 1 + MaxOverrun)
\* the marks a request can carry
Marks == {PlayerX, PlayerO, Empty}

\* the creator CreateGame is given: the handlers pass a mark, the empty mark
\* (api) or whatever string the request carries (htmx)
Creators == Marks \cup {"Z"}

Moves == [Position : Positions, Player : Marks]
\* the moves tried on the unknown identifier: one position off the board, one on it
UnknownMoves == {m \in Moves : m.Position \in {0 - MaxOverrun, 0}}

----------------------------------------------------------------------------
(* The broadcast Hub *)

\* the session identifiers in the paths of the observers' and players' requests
HubIDs == GameIDs \cup {"7b2d4e5f"}
\* the websocket handlers, each with the connection it upgraded
WSConns == {"w1", "w2"}
\* the SSE handlers, each with the channel it made
SSEChans == {"s1", "s2"}
\* the goroutine that calls Broadcast
Broadcasters == {"b1"}

\* make(chan *models.GameState, 10)
SSEBuffer == 10
\* due is history, kept by SpecHandlers: for each pointer in buf, the session
\* as the call that caused its broadcast left it
NewChan == [buf |-> <<>>, closed |-> FALSE, due |-> <<>>]

\* the *models.GameState a handler hands to Broadcast for a session: the
\* pointer the Service returned for that identifier
StateOf(gameID) == [ID |-> gameID]

NewHub ==
    [wsClients |-> [id \in HubIDs |-> {}],
     sseClients |-> [id \in HubIDs |-> {}],
     readers |-> {}]

RegisterWS(h, gameID, conn) == [h EXCEPT !.wsClients[gameID] = @ \cup {conn}]
UnregisterWS(h, gameID, conn) == [h EXCEPT !.wsClients[gameID] = @ \ {conn}]
RegisterSSE(h, gameID, ch) == [h EXCEPT !.sseClients[gameID] = @ \cup {ch}]
\* variant: the channel stays in the observer set
UnregisterSSEKeeps(h, gameID, ch) == h
UnregisterSSE(h, gameID, ch) == [h EXCEPT !.sseClients[gameID] = @ \ {ch}]

\* variant: mu.Lock() does not wait for the holders of mu.RLock()
CanLockAlways(h) == TRUE
\* Hub.mu is free for mu.Lock(): nobody holds it for reading (whoever holds it
\* for writing does so for the length of one step)
CanLock(h) == h.readers = {}

\* the connections and the channels the loops of Broadcast range over
RangeWS(h, gameID) == h.wsClients[gameID]
\* variant: the second loop stops after its first channel
RangeSSEFirst(h, gameID) ==
    IF h.sseClients[gameID] = {} THEN {}
    ELSE {CHOOSE ch \in h.sseClients[gameID] : TRUE}
\* variant: the second loop ranges over the channels of every session
RangeSSEAll(h, gameID) == UNION {h.sseClients[id] : id \in HubIDs}
RangeSSE(h, gameID) == h.sseClients[gameID]

\* variant: the first loop returns at the first write that fails
AfterFailedWriteAbort(ws, w) == {}
\* the connections the first loop has still to range over after WriteJSON
\* failed on w: the error is dropped and the loop goes on
AfterFailedWrite(ws, w) == ws \ {w}

\* variant: the send without the default case, on a channel that always has room
TrySendAlways(buf, game) == Append(buf, game)
\* select { case ch <- game: default: } on a channel holding buf
TrySend(buf, game) == IF Len(buf) < SSEBuffer THEN Append(buf, game) ELSE buf

IdleObserver == [pc |-> "idle"]
IdleBroadcast == [pc |-> "idle"]

HubInit ==
    /\ hub = NewHub
    /\ chans = [s \in SSEChans |-> NewChan]
    /\ obs = [o \in WSConns \cup SSEChans |-> IdleObserver]
    /\ bc = [b \in Broadcasters |-> IdleBroadcast]

----------------------------------------------------------------------------
(* Request goroutines *)

\* net/http runs every request in a goroutine of its own
Threads == {"t1", "t2"}

Free == "free"
IdleThread == [pc |-> "idle"]

\* what a *models.GameState held by a goroutine points to: the object that
\* s.games holds for the session (Live), or an object that CreateGame or
\* ResetGame has since replaced in s.games, which nothing writes any more
Live(gameID) == [ID |-> gameID]
Replaced(game) == [ID |-> game.ID, old |-> game]
IsLive(ptr) == "old" \notin DOMAIN ptr
Deref(gs, ptr) == IF IsLive(ptr) THEN gs[ptr.ID] ELSE ptr.old
\* the pointer ptr once s.games[gameID], holding gs[gameID], is overwritten
Retire(gs, gameID, ptr) ==
    IF IsLive(ptr) /\ ptr.ID = gameID /\ gameID \in DOMAIN gs
    THEN Replaced(gs[gameID])
    ELSE ptr

\* MakeMove, "Make the move": game.Board[move.Position] = move.Player
WriteCell(game, move) == [game EXCEPT !.Board[move.Position] = move.Player]

\* MakeMove after the cell is written: "Check for winner", the full board,
\* "Switch turns"
FinishMove(game) ==
    LET winner == checkWinner(game.Board)
    IN  IF winner # Empty
        THEN [game EXCEPT !.Winner = winner, !.IsOver = TRUE]
        ELSE IF isBoardFull(game.Board)
        THEN [game EXCEPT !.IsDraw = TRUE, !.IsOver = TRUE]
        ELSE [game EXCEPT !.CurrentTurn = SwitchTurn(game.CurrentTurn)]

\* variant: mu.Lock() that does not wait for the holder
CanLockMuAlways(m) == TRUE
\* mu.Lock() and mu.RLock() can be taken: no goroutine holds mu for writing
\* (the sections that hold it for reading are one step long)
CanLockMu(m) == m = Free

ReqInit ==
    /\ thr = [t \in Threads |-> IdleThread]
    /\ mu = Free
    /\ seen = [o \in WSConns \cup SSEChans |-> <<>>]
    /\ served = 0

\* the moves the concurrent requests carry: X on the top row, which it can
\* complete, and O on two cells of the middle row
ConcMoves ==
    [Position : {0, 1, 2}, Player : {PlayerX}]
    \cup [Position : {3, 4}, Player : {PlayerO}]
\* the requests the goroutines serve, all for the one session
ConcRequests ==
    {[op |-> "CreateGame", id |-> id, player |-> Empty] : id \in GameIDs}
    \cup {[op |-> "JoinGame", id |-> id, player |-> p] :
              id \in GameIDs, p \in {PlayerX, PlayerO}}
    \cup {[op |-> "GetGame", id |-> id] : id \in GameIDs}
    \cup {[op |-> "ResetGame", id |-> id] : id \in GameIDs}
    \cup {[op |-> "MakeMove", id |-> id, move |-> m] : id \in GameIDs, m \in ConcMoves}

\* the requests of the goroutines that call the store and then the Hub: those
\* of ConcRequests with the moves on the first cell of each mark
LockRequests ==
    {r \in ConcRequests : r.op = "MakeMove" => r.move.Position \in {0, 3}}

\* the requests the handlers take before the run is cut off
MaxRequests == 3
\* the requests of the handlers that store and then broadcast, and the
\* creation of the session
HandlerRequests ==
    {[op |-> "CreateGame", id |-> id, player |-> Empty] : id \in GameIDs}
    \cup {[op |-> "ResetGame", id |-> id] : id \in GameIDs}
    \cup {[op |-> "MakeMove", id |-> id, move |-> m] : id \in GameIDs, m \in ConcMoves}

----------------------------------------------------------------------------
(* State machine *)

\* Every method of Service runs from Lock to Unlock under Service.mu (GetGame
\* under RLock, and it writes nothing), so a method body is one step.  A step
\* records the call and the store it found; Return is the caller taking the
\* result, after which the next call enters.
NoCall == [op |-> "none"]

Idle == call = NoCall

Init ==
    /\ games = [k \in {} |-> NewGameState(k)]
    /\ call = NoCall
    /\ prev = games
    /\ accepted = [k \in {} |-> <<>>]
    /\ claimed = [k \in GameIDs |-> {}]
    /\ HubInit
    /\ ReqInit

CreateGame(id, creator) ==
    /\ Idle
    /\ games' = Store(games, id, CreatedGame(id, creator))
    /\ call' = [op |-> "CreateGame", id |-> id, player |-> creator, err |-> NoErr]
    /\ prev' = games
    /\ accepted' = Store(accepted, id, <<>>)
    /\ UNCHANGED claimed
    /\ UNCHANGED <<hubvars, reqvars>>

JoinGame(gameID, player) ==
    LET err == JoinGameErr(games, gameID, player) IN
    /\ Idle
    /\ games' = IF err = NoErr
                THEN [games EXCEPT ![gameID] = ApplyJoin(@, player)]
                ELSE games
    /\ call' = [op |-> "JoinGame", id |-> gameID, player |-> player, err |-> err]
    /\ prev' = games
    /\ UNCHANGED <<accepted, claimed>>
    /\ UNCHANGED <<hubvars, reqvars>>

GetGame(id) ==
    /\ Idle
    /\ call' = [op |-> "GetGame", id |-> id,
                err |-> IF id \in DOMAIN games THEN NoErr ELSE ErrNotFound]
    /\ prev' = games
    /\ UNCHANGED <<games, accepted, claimed>>
    /\ UNCHANGED <<hubvars, reqvars>>

MakeMove(gameID, move) ==
    LET err == MakeMoveErr(games, gameID, move) IN
    /\ Idle
    /\ games' = IF err = NoErr
                THEN [games EXCEPT ![gameID] = ApplyMove(@, move)]
                ELSE games
    /\ call' = [op |-> "MakeMove", id |-> gameID, move |-> move, err |-> err]
    /\ prev' = games
    /\ accepted' = IF err = NoErr
                   THEN [accepted EXCEPT ![gameID] = Append(@, move.Player)]
                   ELSE accepted
    /\ UNCHANGED claimed
    /\ UNCHANGED <<hubvars, reqvars>>

ResetGame(gameID) ==
    LET err == ResetGameErr(games, gameID) IN
    /\ Idle
    /\ games' = IF err = NoErr
                THEN Store(games, gameID, ResetState(games[gameID], gameID))
                ELSE games
    /\ call' = [op |-> "ResetGame", id |-> gameID, err |-> err]
    /\ prev' = games
    /\ accepted' = IF err = NoErr
                   THEN [accepted EXCEPT ![gameID] = <<>>]
                   ELSE accepted
    /\ UNCHANGED claimed
    /\ UNCHANGED <<hubvars, reqvars>>

Return ==
    /\ ~Idle
    /\ call' = NoCall
    /\ prev' = games
    /\ UNCHANGED <<games, accepted, claimed>>
    /\ UNCHANGED <<hubvars, reqvars>>

\* the seat history after the caller has taken the result of call c
ClaimsAfter(c, cl) ==
    IF c.op \in {"CreateGame", "JoinGame"} /\ c.err = NoErr
       /\ c.player \in {PlayerX, PlayerO}
    THEN [cl EXCEPT ![c.id] = @ \cup {c.player}]
    ELSE cl

\* Return, recording in the seat history what the call claimed
ReturnSeats ==
    /\ ~Idle
    /\ call' = NoCall
    /\ prev' = games
    /\ claimed' = ClaimsAfter(call, claimed)
    /\ UNCHANGED <<games, accepted>>
    /\ UNCHANGED <<hubvars, reqvars>>

Next ==
    \/ \E id \in GameIDs, creator \in Creators : CreateGame(id, creator)
    \/ \E id \in AllIDs, player \in Marks : JoinGame(id, player)
    \/ \E id \in AllIDs : GetGame(id)
    \/ \E id \in GameIDs, move \in Moves : MakeMove(id, move)
    \/ \E move \in UnknownMoves : MakeMove(UnknownID, move)
    \/ \E id \in AllIDs : ResetGame(id)
    \/ Return

\* the store
Spec == Init /\ [][Next]_vars

\* the runs of the store in which CreateGame never draws an identifier that is
\* already a key of the store, with the seat history kept
NextSeats ==
    \/ \E id \in GameIDs \ DOMAIN games, creator \in Creators : CreateGame(id, creator)
    \/ \E id \in AllIDs, player \in Marks : JoinGame(id, player)
    \/ \E id \in AllIDs : GetGame(id)
    \/ \E id \in GameIDs, move \in Moves : MakeMove(id, move)
    \/ \E move \in UnknownMoves : MakeMove(UnknownID, move)
    \/ \E id \in AllIDs : ResetGame(id)
    \/ ReturnSeats

SpecSeats == Init /\ [][NextSeats]_vars

\* handleWebSocket: the connection is upgraded and registered for the session
\* its path names
WSOpen(w, gameID) ==
    /\ obs[w].pc = "idle"
    /\ CanLock(hub)
    /\ hub' = RegisterWS(hub, gameID, w)
    /\ obs' = [obs EXCEPT ![w] = [pc |-> "open", gameID |-> gameID]]
    /\ UNCHANGED <<chans, bc, storevars, reqvars>>

\* handleWebSocket: ReadJSON fails and the read loop breaks
WSBreak(w) ==
    /\ obs[w].pc = "open"
    /\ obs' = [obs EXCEPT ![w].pc = "closing"]
    /\ UNCHANGED <<hub, chans, bc, storevars, reqvars>>

\* handleWebSocket returns: the deferred UnregisterWS, then conn.Close
WSClose(w) ==
    /\ obs[w].pc = "closing"
    /\ CanLock(hub)
    /\ hub' = UnregisterWS(hub, obs[w].gameID, w)
    /\ obs' = [obs EXCEPT ![w].pc = "returned"]
    /\ UNCHANGED <<chans, bc, storevars, reqvars>>

\* handleSSE: the channel is made and registered for the session its path names
SSEOpen(s, gameID) ==
    /\ obs[s].pc = "idle"
    /\ CanLock(hub)
    /\ chans' = [chans EXCEPT ![s] = NewChan]
    /\ hub' = RegisterSSE(hub, gameID, s)
    /\ obs' = [obs EXCEPT ![s] = [pc |-> "registered", gameID |-> gameID]]
    /\ UNCHANGED <<bc, storevars, reqvars>>

\* handleSSE: the response writer is no http.Flusher, the handler returns
SSENoFlusher(s) ==
    /\ obs[s].pc = "registered"
    /\ obs' = [obs EXCEPT ![s].pc = "closing"]
    /\ UNCHANGED <<hub, chans, bc, storevars, reqvars>>

\* handleSSE: the initial state is sent and the loop is entered
SSEInitial(s) ==
    /\ obs[s].pc = "registered"
    /\ obs' = [obs EXCEPT ![s].pc = "loop"]
    /\ UNCHANGED <<hub, chans, bc, storevars, reqvars>>

\* handleSSE, case game := <-ch: the state is rendered and flushed
SSERecv(s) ==
    /\ obs[s].pc = "loop"
    /\ chans[s].buf # <<>>
    /\ chans' = [chans EXCEPT ![s].buf = Tail(@)]
    /\ UNCHANGED <<hub, obs, bc, storevars, reqvars>>

\* handleSSE, case <-r.Context().Done(): the loop is left
SSEDone(s) ==
    /\ obs[s].pc = "loop"
    /\ obs' = [obs EXCEPT ![s].pc = "closing"]
    /\ UNCHANGED <<hub, chans, bc, storevars, reqvars>>

\* handleSSE returns: the deferred UnregisterSSE deletes the channel and closes it
SSEClose(s) ==
    /\ obs[s].pc = "closing"
    /\ CanLock(hub)
    /\ hub' = UnregisterSSE(hub, obs[s].gameID, s)
    /\ chans' = [chans EXCEPT ![s].closed = TRUE]
    /\ obs' = [obs EXCEPT ![s].pc = "returned"]
    /\ UNCHANGED <<bc, storevars, reqvars>>

\* Broadcast(gameID, game) takes mu.RLock(); ws and sse are what its two loops
\* have still to range over.  History: wrote, the connections WriteJSON was
\* called on; failed, those on which it returned an error; full, the channels
\* that held SSEBuffer states when their select ran; sent, the channels whose
\* queue the select extended by game
BroadcastEnter(b, gameID) ==
    /\ bc[b].pc = "idle"
    /\ hub' = [hub EXCEPT !.readers = @ \cup {b}]
    /\ bc' = [bc EXCEPT ![b] =
                 [pc |-> "loops", gameID |-> gameID, game |-> StateOf(gameID),
                  ws |-> RangeWS(hub, gameID), sse |-> RangeSSE(hub, gameID),
                  wrote |-> {}, failed |-> {}, full |-> {}, sent |-> {}]]
    /\ UNCHANGED <<chans, obs, storevars, reqvars>>

\* Broadcast: conn.WriteJSON(game) on one connection of the first loop
BroadcastWrite(b, w) ==
    /\ bc[b].pc = "loops"
    /\ w \in bc[b].ws
    /\ bc' = [bc EXCEPT ![b].ws = @ \ {w}, ![b].wrote = @ \cup {w}]
    /\ UNCHANGED <<hub, chans, obs, storevars, reqvars>>

\* Broadcast: conn.WriteJSON(game) returns an error, which the loop drops
BroadcastWriteFails(b, w) ==
    /\ bc[b].pc = "loops"
    /\ w \in bc[b].ws
    /\ bc' = [bc EXCEPT ![b].ws = AfterFailedWrite(@, w),
                        ![b].wrote = @ \cup {w},
                        ![b].failed = @ \cup {w}]
    /\ UNCHANGED <<hub, chans, obs, storevars, reqvars>>

\* Broadcast: the select on one channel of the second loop
BroadcastSend(b, s) ==
    LET buf == TrySend(chans[s].buf, bc[b].game) IN
    /\ bc[b].pc = "loops"
    /\ bc[b].ws = {}
    /\ s \in bc[b].sse
    /\ chans' = [chans EXCEPT ![s].buf = buf]
    /\ bc' = [bc EXCEPT
                 ![b].sse = @ \ {s},
                 ![b].full = IF Len(chans[s].buf) >= SSEBuffer THEN @ \cup {s} ELSE @,
                 ![b].sent = IF buf = Append(chans[s].buf, bc[b].game)
                             THEN @ \cup {s} ELSE @]
    /\ UNCHANGED <<hub, obs, storevars, reqvars>>

\* Broadcast: both loops are through, the deferred mu.RUnlock(), and the
\* caller goes on
BroadcastLeave(b) ==
    /\ bc[b].pc = "loops"
    /\ bc[b].ws = {}
    /\ bc[b].sse = {}
    /\ hub' = [hub EXCEPT !.readers = @ \ {b}]
    /\ bc' = [bc EXCEPT ![b] = IdleBroadcast]
    /\ UNCHANGED <<chans, obs, storevars, reqvars>>

NextHub ==
    \/ \E w \in WSConns, id \in HubIDs : WSOpen(w, id)
    \/ \E w \in WSConns : WSBreak(w)
    \/ \E w \in WSConns : WSClose(w)
    \/ \E s \in SSEChans, id \in HubIDs : SSEOpen(s, id)
    \/ \E s \in SSEChans : SSENoFlusher(s)
    \/ \E s \in SSEChans : SSEInitial(s)
    \/ \E s \in SSEChans : SSERecv(s)
    \/ \E s \in SSEChans : SSEDone(s)
    \/ \E s \in SSEChans : SSEClose(s)
    \/ \E b \in Broadcasters, id \in HubIDs : BroadcastEnter(b, id)
    \/ \E b \in Broadcasters, w \in WSConns : BroadcastWrite(b, w)
    \/ \E b \in Broadcasters, w \in WSConns : BroadcastWriteFails(b, w)
    \/ \E b \in Broadcasters, s \in SSEChans : BroadcastSend(b, s)
    \/ \E b \in Broadcasters : BroadcastLeave(b)

\* the Hub with its observers and the callers of Broadcast
SpecHub == Init /\ [][NextHub]_vars

\* a request arrives and its handler calls the Service
Request(t, req) ==
    /\ thr[t].pc = "idle"
    /\ thr' = [thr EXCEPT ![t] = [pc |-> "called", req |-> req]]
    /\ UNCHANGED <<storevars, hubvars, mu, seen, served>>

\* the goroutines after s.games[gameID] is overwritten by goroutine t, which
\* becomes r: the pointers the others hold to the old object no longer
\* point into s.games
Overwritten(t, r, gameID) ==
    [u \in Threads |->
        IF u = t THEN r
        ELSE IF "ptr" \in DOMAIN thr[u]
             THEN [thr[u] EXCEPT !.ptr = Retire(games, gameID, @)]
             ELSE thr[u]]

\* the call has returned err
Returned(req, err) == [pc |-> "ret", req |-> req, err |-> err]

\* Service.CreateGame, from Lock to Unlock
SvcCreateGame(t) ==
    LET req == thr[t].req
        gs == Store(games, req.id, CreatedGame(req.id, req.player)) IN
    /\ thr[t].pc = "called" /\ req.op = "CreateGame"
    /\ CanLockMu(mu)
    /\ games' = gs
    /\ thr' = Overwritten(t, Returned(req, NoErr), req.id)
    /\ UNCHANGED <<call, prev, accepted, claimed, hubvars, mu, seen, served>>

\* Service.JoinGame, from Lock to Unlock
SvcJoinGame(t) ==
    LET req == thr[t].req
        err == JoinGameErr(games, req.id, req.player)
        gs == IF err = NoErr
              THEN [games EXCEPT ![req.id] = ApplyJoin(@, req.player)]
              ELSE games IN
    /\ thr[t].pc = "called" /\ req.op = "JoinGame"
    /\ CanLockMu(mu)
    /\ games' = gs
    /\ thr' = [thr EXCEPT ![t] = Returned(req, err)]
    /\ UNCHANGED <<call, prev, accepted, claimed, hubvars, mu, seen, served>>

\* Service.ResetGame, from Lock to Unlock
SvcResetGame(t) ==
    LET req == thr[t].req
        err == ResetGameErr(games, req.id)
        gs == IF err = NoErr
              THEN Store(games, req.id, ResetState(games[req.id], req.id))
              ELSE games IN
    /\ thr[t].pc = "called" /\ req.op = "ResetGame"
    /\ CanLockMu(mu)
    /\ games' = gs
    /\ thr' = Overwritten(t, Returned(req, err), req.id)
    /\ UNCHANGED <<call, prev, accepted, claimed, hubvars, mu, seen, served>>

\* Service.MakeMove: Lock and the validation chain; an error returns
SvcMakeMoveLock(t) ==
    LET req == thr[t].req
        err == MakeMoveErr(games, req.id, req.move) IN
    /\ thr[t].pc = "called" /\ req.op = "MakeMove"
    /\ CanLockMu(mu)
    /\ mu' = IF err = NoErr THEN t ELSE mu
    /\ thr' = [thr EXCEPT ![t] =
                  IF err = NoErr
                  THEN [pc |-> "cell", req |-> req, err |-> err, at |-> games]
                  ELSE Returned(req, err)]
    /\ UNCHANGED <<storevars, hubvars, seen, served>>

\* Service.MakeMove: the cell is written
SvcMakeMoveCell(t) ==
    LET req == thr[t].req IN
    /\ thr[t].pc = "cell"
    /\ games' = [games EXCEPT ![req.id] = WriteCell(@, req.move)]
    /\ thr' = [thr EXCEPT ![t].pc = "flags"]
    /\ UNCHANGED <<call, prev, accepted, claimed, hubvars, mu, seen, served>>

\* Service.MakeMove: winner, draw or turn are written, and Unlock
SvcMakeMoveFlags(t) ==
    LET req == thr[t].req
        gs == [games EXCEPT ![req.id] = FinishMove(@)] IN
    /\ thr[t].pc = "flags"
    /\ games' = gs
    /\ mu' = Free
    /\ thr' = [thr EXCEPT ![t] = Returned(req, thr[t].err)]
    /\ UNCHANGED <<call, prev, accepted, claimed, hubvars, seen, served>>

\* Service.GetGame, from RLock to RUnlock: the pointer in s.games is returned
SvcGetGame(t) ==
    LET req == thr[t].req IN
    /\ thr[t].pc = "called" /\ req.op = "GetGame"
    /\ CanLockMu(mu)
    /\ thr' = [thr EXCEPT ![t] =
                  IF req.id \in DOMAIN games
                  THEN [pc |-> "got", req |-> req, ptr |-> Live(req.id)]
                  ELSE Returned(req, ErrNotFound)]
    /\ UNCHANGED <<storevars, hubvars, mu, seen, served>>

\* the caller of GetGame serializes or renders what the pointer points to; it
\* holds no lock, and what it reads is the object as it is at that moment
ReadGame(t) ==
    /\ thr[t].pc = "got"
    /\ thr' = [thr EXCEPT ![t] =
                  [pc |-> "read", req |-> thr[t].req,
                   state |-> Deref(games, thr[t].ptr)]]
    /\ UNCHANGED <<storevars, hubvars, mu, seen, served>>

\* the handler is done with its request
ThreadReturn(t) ==
    /\ thr[t].pc \in {"ret", "read"}
    /\ thr' = [thr EXCEPT ![t] = IdleThread]
    /\ UNCHANGED <<storevars, hubvars, mu, seen, served>>

NextConc ==
    \/ \E t \in Threads, req \in ConcRequests : Request(t, req)
    \/ \E t \in Threads : SvcCreateGame(t)
    \/ \E t \in Threads : SvcJoinGame(t)
    \/ \E t \in Threads : SvcResetGame(t)
    \/ \E t \in Threads : SvcMakeMoveLock(t)
    \/ \E t \in Threads : SvcMakeMoveCell(t)
    \/ \E t \in Threads : SvcMakeMoveFlags(t)
    \/ \E t \in Threads : SvcGetGame(t)
    \/ \E t \in Threads : ReadGame(t)
    \/ \E t \in Threads : ThreadReturn(t)

\* the Service called by concurrent request goroutines
SpecConc == Init /\ [][NextConc]_vars

\* the channels after s.games[gameID] is overwritten: the pointers they hold
\* to the old object no longer point into s.games
Requeued(gameID) ==
    [s \in SSEChans |->
        [chans[s] EXCEPT
            !.buf = [k \in 1..Len(chans[s].buf) |-> Retire(games, gameID, chans[s].buf[k])]]]

\* handleCreateGame: CreateGame, drawing an identifier that is not yet a key
\* of the store, and the response
HandleCreateGame(t, req) ==
    /\ thr[t].pc = "idle" /\ req.op = "CreateGame"
    /\ req.id \notin DOMAIN games
    /\ CanLockMu(mu)
    /\ served < MaxRequests
    /\ served' = served + 1
    /\ games' = Store(games, req.id, CreatedGame(req.id, req.player))
    /\ thr' = Overwritten(t, IdleThread, req.id)
    /\ chans' = Requeued(req.id)
    /\ UNCHANGED <<call, prev, accepted, claimed, hub, obs, bc, mu, seen>>

\* handleMakeMove up to its Broadcast: MakeMove returns the session's pointer,
\* or an error, which ends the handler; after is history, the session as the
\* call left it
HandleMakeMove(t, req) ==
    LET err == MakeMoveErr(games, req.id, req.move) IN
    /\ thr[t].pc = "idle" /\ req.op = "MakeMove"
    /\ CanLockMu(mu)
    /\ served < MaxRequests
    /\ served' = served + 1
    /\ games' = IF err = NoErr
                THEN [games EXCEPT ![req.id] = FinishMove(WriteCell(@, req.move))]
                ELSE games
    /\ thr' = [thr EXCEPT ![t] =
                  IF err = NoErr
                  THEN [pc |-> "stored", req |-> req, ptr |-> Live(req.id),
                        after |-> FinishMove(WriteCell(games[req.id], req.move))]
                  ELSE IdleThread]
    /\ UNCHANGED <<call, prev, accepted, claimed, hubvars, mu, seen>>

\* handleResetGame up to its Broadcast: ResetGame returns the pointer to the
\* new object it stored, or an error, which ends the handler
HandleResetGame(t, req) ==
    LET err == ResetGameErr(games, req.id) IN
    /\ thr[t].pc = "idle" /\ req.op = "ResetGame"
    /\ CanLockMu(mu)
    /\ served < MaxRequests
    /\ served' = served + 1
    /\ games' = IF err = NoErr
                THEN Store(games, req.id, ResetState(games[req.id], req.id))
                ELSE games
    /\ thr' = IF err = NoErr
              THEN Overwritten(t, [pc |-> "stored", req |-> req, ptr |-> Live(req.id),
                                   after |-> ResetState(games[req.id], req.id)],
                               req.id)
              ELSE thr
    /\ chans' = IF err = NoErr THEN Requeued(req.id) ELSE chans
    /\ UNCHANGED <<call, prev, accepted, claimed, hub, obs, bc, mu, seen>>

\* h.hub.Broadcast(gameID, g) and the response: WriteJSON serializes what g
\* points to, the channels get the pointer.  Broadcast is taken in one step
\* here; SpecHub has its steps.
HandleBroadcast(t) ==
    LET gameID == thr[t].req.id
        g == thr[t].ptr IN
    /\ thr[t].pc = "stored"
    /\ CanLockMu(mu)
    /\ seen' = [o \in DOMAIN seen |->
                   IF o \in RangeWS(hub, gameID) THEN Deref(games, g) ELSE seen[o]]
    /\ chans' = [s \in SSEChans |->
                    IF s \in RangeSSE(hub, gameID)
                    THEN [chans[s] EXCEPT
                             !.buf = TrySend(@, g),
                             !.due = IF TrySend(chans[s].buf, g) = chans[s].buf
                                     THEN @ ELSE Append(@, thr[t].after)]
                    ELSE chans[s]]
    /\ thr' = [thr EXCEPT ![t] = IdleThread]
    /\ UNCHANGED <<storevars, hub, obs, bc, mu, served>>

\* handleWebSocket up to its read loop: the connection is registered and, if
\* GetGame finds the session, sent its state
WSObserve(w, gameID) ==
    /\ obs[w].pc = "idle"
    /\ CanLock(hub) /\ CanLockMu(mu)
    /\ hub' = RegisterWS(hub, gameID, w)
    /\ obs' = [obs EXCEPT ![w] = [pc |-> "open", gameID |-> gameID]]
    /\ seen' = IF gameID \in DOMAIN games
               THEN [seen EXCEPT ![w] = games[gameID]] ELSE seen
    /\ UNCHANGED <<storevars, chans, bc, thr, mu, served>>

\* handleSSE up to its loop: the channel is made and registered and, if GetGame
\* finds the session, its state is rendered and flushed
SSEObserve(s, gameID) ==
    /\ obs[s].pc = "idle"
    /\ CanLock(hub) /\ CanLockMu(mu)
    /\ chans' = [chans EXCEPT ![s] = NewChan]
    /\ hub' = RegisterSSE(hub, gameID, s)
    /\ obs' = [obs EXCEPT ![s] = [pc |-> "loop", gameID |-> gameID]]
    /\ seen' = IF gameID \in DOMAIN games
               THEN [seen EXCEPT ![s] = games[gameID]] ELSE seen
    /\ UNCHANGED <<storevars, bc, thr, mu, served>>

\* handleSSE, case g := <-ch: what g points to is rendered and flushed
SSERender(s) ==
    /\ obs[s].pc = "loop"
    /\ chans[s].buf # <<>>
    /\ CanLockMu(mu)
    /\ chans' = [chans EXCEPT ![s].buf = Tail(@), ![s].due = Tail(@)]
    /\ seen' = [seen EXCEPT ![s] = Deref(games, Head(chans[s].buf))]
    /\ UNCHANGED <<storevars, hub, obs, bc, thr, mu, served>>

NextHandlers ==
    \/ \E t \in Threads, req \in HandlerRequests : HandleCreateGame(t, req)
    \/ \E t \in Threads, req \in HandlerRequests : HandleMakeMove(t, req)
    \/ \E t \in Threads, req \in HandlerRequests : HandleResetGame(t, req)
    \/ \E t \in Threads : HandleBroadcast(t)
    \/ \E w \in WSConns, id \in GameIDs : WSObserve(w, id)
    \/ \E s \in SSEChans, id \in GameIDs : SSEObserve(s, id)
    \/ \E s \in SSEChans : SSERender(s)

\* the handlers that change a session and broadcast it, with the observers
SpecHandlers == Init /\ [][NextHandlers]_vars

\* variant: Broadcast is called inside MakeMove, before its Unlock
MayBroadcastInside(r) == r.pc = "flags"
\* the handler goes on to h.hub.Broadcast: MakeMove or ResetGame has returned
\* without an error
MayBroadcast(r) ==
    r.pc = "ret" /\ r.req.op \in {"MakeMove", "ResetGame"} /\ r.err = NoErr

\* the handler of t calls Broadcast, which Broadcast goroutine slot b runs:
\* mu.RLock() of the Hub
CallBroadcast(t, b) ==
    LET gameID == thr[t].req.id IN
    /\ MayBroadcast(thr[t])
    /\ bc[b].pc = "idle"
    /\ \A u \in Threads : thr[u].pc = "broadcasting" => thr[u].b # b
    /\ hub' = [hub EXCEPT !.readers = @ \cup {b}]
    /\ bc' = [bc EXCEPT ![b] =
                 [pc |-> "loops", gameID |-> gameID, game |-> StateOf(gameID),
                  ws |-> RangeWS(hub, gameID), sse |-> RangeSSE(hub, gameID),
                  wrote |-> {}, failed |-> {}, full |-> {}, sent |-> {}]]
    /\ thr' = [thr EXCEPT ![t] = [pc |-> "broadcasting", req |-> thr[t].req, b |-> b]]
    /\ UNCHANGED <<storevars, chans, obs, mu, seen, served>>

\* Broadcast has returned to the handler of t, which responds
BroadcastDone(t) ==
    /\ thr[t].pc = "broadcasting"
    /\ bc[thr[t].b].pc = "idle"
    /\ thr' = [thr EXCEPT ![t] = IdleThread]
    /\ UNCHANGED <<storevars, hubvars, mu, seen, served>>

\* the handler of t responds without a Broadcast: an error, or a request that
\* has none
Respond(t) ==
    /\ thr[t].pc \in {"ret", "read"}
    /\ ~MayBroadcast(thr[t])
    /\ thr' = [thr EXCEPT ![t] = IdleThread]
    /\ UNCHANGED <<storevars, hubvars, mu, seen, served>>

NextLocks ==
    \/ \E t \in Threads, req \in LockRequests : Request(t, req)
    \/ \E t \in Threads : SvcCreateGame(t)
    \/ \E t \in Threads : SvcJoinGame(t)
    \/ \E t \in Threads : SvcResetGame(t)
    \/ \E t \in Threads : SvcMakeMoveLock(t)
    \/ \E t \in Threads : SvcMakeMoveCell(t)
    \/ \E t \in Threads : SvcMakeMoveFlags(t)
    \/ \E t \in Threads : SvcGetGame(t)
    \/ \E t \in Threads : ReadGame(t)
    \/ \E t \in Threads : Respond(t)
    \/ \E t \in Threads, b \in Broadcasters : CallBroadcast(t, b)
    \/ \E t \in Threads : BroadcastDone(t)
    \/ \E b \in Broadcasters, w \in WSConns : BroadcastWrite(b, w)
    \/ \E b \in Broadcasters, w \in WSConns : BroadcastWriteFails(b, w)
    \/ \E b \in Broadcasters : BroadcastLeave(b)
    \/ \E w \in WSConns, id \in GameIDs : WSOpen(w, id)
    \/ \E w \in WSConns : WSBreak(w)
    \/ \E w \in WSConns : WSClose(w)

\* the request goroutines with both locks: Service.mu inside the store calls,
\* Hub.mu inside Broadcast and the registrations of the websocket handlers
SpecLocks == Init /\ [][NextLocks]_vars

\* the websocket frames that MakeMove rejects whatever the session is: moves
\* off the board
WSBadMoves == {m \in Moves : m.Position \notin Cells}

\* no WriteJSON in progress
NoConn == "none"

\* h.hub.Broadcast(gameID, g) by the handler of t: mu.RLock(); ws is what its
\* first loop has still to range over, writing the connection its WriteJSON
\* is writing to
BroadcastRLock(t) ==
    LET gameID == thr[t].req.id IN
    /\ thr[t].pc = "stored"
    /\ hub' = [hub EXCEPT !.readers = @ \cup {t}]
    /\ thr' = [thr EXCEPT ![t] =
                  [pc |-> "loops", req |-> thr[t].req, ptr |-> thr[t].ptr,
                   ws |-> RangeWS(hub, gameID), writing |-> NoConn]]
    /\ UNCHANGED <<storevars, chans, obs, bc, mu, seen, served>>

\* Broadcast of t: conn.WriteJSON(game) begins on a connection of the first loop
WriteJSONBegin(t, w) ==
    /\ thr[t].pc = "loops"
    /\ thr[t].writing = NoConn
    /\ w \in thr[t].ws
    /\ thr' = [thr EXCEPT ![t].writing = w]
    /\ UNCHANGED <<storevars, hubvars, mu, seen, served>>

\* Broadcast of t: conn.WriteJSON(game) returns, with or without an error
WriteJSONEnd(t) ==
    /\ thr[t].pc = "loops"
    /\ thr[t].writing # NoConn
    /\ thr' = [thr EXCEPT ![t].ws = @ \ {thr[t].writing}, ![t].writing = NoConn]
    /\ UNCHANGED <<storevars, hubvars, mu, seen, served>>

\* Broadcast of t: the first loop is through, the second loop offers the
\* pointer to every channel of the session, the deferred mu.RUnlock(), and
\* the handler responds
BroadcastRUnlock(t) ==
    LET gameID == thr[t].req.id IN
    /\ thr[t].pc = "loops"
    /\ thr[t].ws = {}
    /\ thr[t].writing = NoConn
    /\ chans' = [s \in SSEChans |->
                    IF s \in RangeSSE(hub, gameID)
                    THEN [chans[s] EXCEPT !.buf = TrySend(@, thr[t].ptr)]
                    ELSE chans[s]]
    /\ hub' = [hub EXCEPT !.readers = @ \ {t}]
    /\ thr' = [thr EXCEPT ![t] = IdleThread]
    /\ UNCHANGED <<storevars, obs, bc, mu, seen, served>>

\* handleWebSocket after RegisterWS: GetGame finds the session and
\* conn.WriteJSON(game) begins
WSInitialBegin(w) ==
    /\ obs[w].pc = "open"
    /\ CanLockMu(mu)
    /\ obs[w].gameID \in DOMAIN games
    /\ obs' = [obs EXCEPT ![w].pc = "writing"]
    /\ UNCHANGED <<hub, chans, bc, storevars, reqvars>>

\* handleWebSocket after RegisterWS: GetGame does not find the session, the
\* read loop is entered
WSInitialNone(w) ==
    /\ obs[w].pc = "open"
    /\ CanLockMu(mu)
    /\ obs[w].gameID \notin DOMAIN games
    /\ obs' = [obs EXCEPT ![w].pc = "reading"]
    /\ UNCHANGED <<hub, chans, bc, storevars, reqvars>>

\* handleWebSocket: its conn.WriteJSON returns and ReadJSON is next
WSWriteEnd(w) ==
    /\ obs[w].pc = "writing"
    /\ obs' = [obs EXCEPT ![w].pc = "reading"]
    /\ UNCHANGED <<hub, chans, bc, storevars, reqvars>>

\* handleWebSocket, read loop: ReadJSON returns a move, MakeMove rejects it and
\* conn.WriteJSON of the error begins
WSMoveRejected(w, move) ==
    /\ obs[w].pc = "reading"
    /\ CanLockMu(mu)
    /\ MakeMoveErr(games, obs[w].gameID, move) # NoErr
    /\ obs' = [obs EXCEPT ![w].pc = "writing"]
    /\ UNCHANGED <<hub, chans, bc, storevars, reqvars>>

\* handleWebSocket, read loop: ReadJSON fails and the loop breaks
WSReadFails(w) ==
    /\ obs[w].pc = "reading"
    /\ obs' = [obs EXCEPT ![w].pc = "closing"]
    /\ UNCHANGED <<hub, chans, bc, storevars, reqvars>>

NextWrites ==
    \/ \E t \in Threads, req \in HandlerRequests : HandleCreateGame(t, req)
    \/ \E t \in Threads, req \in HandlerRequests : HandleMakeMove(t, req)
    \/ \E t \in Threads, req \in HandlerRequests : HandleResetGame(t, req)
    \/ \E t \in Threads : BroadcastRLock(t)
    \/ \E t \in Threads, w \in WSConns : WriteJSONBegin(t, w)
    \/ \E t \in Threads : WriteJSONEnd(t)
    \/ \E t \in Threads : BroadcastRUnlock(t)
    \/ \E w \in WSConns, id \in GameIDs : WSOpen(w, id)
    \/ \E w \in WSConns : WSInitialBegin(w)
    \/ \E w \in WSConns : WSInitialNone(w)
    \/ \E w \in WSConns : WSWriteEnd(w)
    \/ \E w \in WSConns, move \in WSBadMoves : WSMoveRejected(w, move)
    \/ \E w \in WSConns : WSReadFails(w)
    \/ \E w \in WSConns : WSClose(w)

\* the handlers that write to websocket connections: those that broadcast
\* after a store call, each inside its own Broadcast, and the websocket
\* handlers with their own writes
SpecWrites == Init /\ [][NextWrites]_vars

----------------------------------------------------------------------------
(* Properties *)

\* the eight lines of the 3x3 board, row-major: rows, columns, diagonals
Rows == {{3 * r, 3 * r + 1, 3 * r + 2} : r \in 0..2}
Columns == {{c, c + 3, c + 6} : c \in 0..2}
Diagonals == {{0, 4, 8}, {2, 4, 6}}
Lines == Rows \cup Columns \cup Diagonals

HasLine(board, m) == \E l \in Lines : \A c \in l : board[c] = m
NoEmptyCell(board) == \A c \in Cells : board[c] \in {PlayerX, PlayerO}

\* the call that is returning is a MakeMove that was accepted
MoveAccepted == call.op = "MakeMove" /\ call.err = NoErr

\* C1: in every session the marks of the moves accepted since creation or the
\* last reset alternate, starting with X (so no mark has two accepted moves in
\* a row), and after an accepted move that does not end the game CurrentTurn
\* is the other mark.
C1_TurnsAlternate ==
    \A id \in DOMAIN games :
        /\ \A k \in 1..Len(accepted[id]) :
               accepted[id][k] = IF k % 2 = 1 THEN PlayerX ELSE PlayerO
        /\ (MoveAccepted /\ call.id = id /\ ~games[id].IsOver) =>
               /\ games[id].CurrentTurn \in {PlayerX, PlayerO}
               /\ games[id].CurrentTurn # call.move.Player
               /\ prev[id].CurrentTurn = call.move.Player

\* C1 witness: the fourth move of a game, by O, was accepted and left the game open
C1_Witness ==
    /\ MoveAccepted
    /\ call.move.Player = PlayerO
    /\ Len(accepted[call.id]) = 4
    /\ ~games[call.id].IsOver

\* C2: a MakeMove on a session that is over, whatever the position (on the
\* board or not) and the mark, fails with ErrGameOver and leaves the store --
\* the board and every other field of the session -- as it was; and a session
\* that is over stays over through every call that is not a ResetGame (or a
\* CreateGame, which stores a new session).
C2_GameOverRejects ==
    /\ (call.op = "MakeMove" /\ call.id \in DOMAIN prev /\ prev[call.id].IsOver) =>
           /\ call.err = ErrGameOver
           /\ games = prev
    /\ call.op \in {"MakeMove", "JoinGame", "GetGame"} =>
           \A id \in DOMAIN prev :
               prev[id].IsOver => (id \in DOMAIN games /\ games[id].IsOver)

\* C2 witness: a move by the mark whose turn it is, to an empty cell of a won
\* game, has been rejected
C2_Witness ==
    /\ call.op = "MakeMove"
    /\ call.id \in DOMAIN prev
    /\ prev[call.id].IsOver
    /\ call.move.Position \in Cells
    /\ prev[call.id].Board[call.move.Position] = Empty
    /\ call.move.Player = prev[call.id].CurrentTurn
    /\ call.err = ErrGameOver

\* C3: in every state of every session, Winner = m and IsOver hold exactly when
\* the board holds one of the eight lines filled with m; as this holds right
\* after every step, the flags are set by the move that completes the line.
C3_WinExact ==
    \A id \in DOMAIN games : \A m \in {PlayerX, PlayerO} :
        (games[id].Winner = m /\ games[id].IsOver) <=> HasLine(games[id].Board, m)

\* C3 witness: an accepted move by O has completed the anti-diagonal
C3_Witness ==
    /\ MoveAccepted
    /\ call.move.Player = PlayerO
    /\ \A c \in {2, 4, 6} : games[call.id].Board[c] = PlayerO
    /\ ~HasLine(prev[call.id].Board, PlayerO)
    /\ games[call.id].Winner = PlayerO

\* C4: in every state of every session, IsDraw holds exactly when the board has
\* no empty cell and no completed line, and then IsOver holds and Winner is
\* empty; a full board with a completed line is a win and not a draw.
C4_DrawExact ==
    \A id \in DOMAIN games :
        LET g == games[id]
            line == HasLine(g.Board, PlayerX) \/ HasLine(g.Board, PlayerO)
        IN  /\ g.IsDraw <=> (NoEmptyCell(g.Board) /\ ~line)
            /\ g.IsDraw => (g.IsOver /\ g.Winner = Empty)
            /\ (NoEmptyCell(g.Board) /\ line) =>
                   (g.Winner \in {PlayerX, PlayerO} /\ ~g.IsDraw /\ g.IsOver)

\* C4 witness: the ninth accepted move has filled the board without a line
C4_Witness ==
    /\ MoveAccepted
    /\ Len(accepted[call.id]) = 9
    /\ games[call.id].IsDraw

\* the call that is returning is a MakeMove on a session of the store
MoveOnSession == call.op = "MakeMove" /\ call.id \in DOMAIN prev

\* C5 (as claimed): a MakeMove on a session with a position outside 0..8 fails
\* with ErrInvalidMove whatever the state of the session, store unchanged.
C5_Original ==
    (MoveOnSession /\ call.move.Position \notin Cells) =>
        (call.err = ErrInvalidMove /\ games = prev)

\* C5 (amended): a MakeMove on a session with a position outside 0..8 always
\* fails and leaves the store unchanged: with ErrInvalidMove when the session
\* is not over, with ErrGameOver when it is.
C5_OutOfRangeRejected ==
    (MoveOnSession /\ call.move.Position \notin Cells) =>
        /\ games = prev
        /\ call.err = IF prev[call.id].IsOver THEN ErrGameOver ELSE ErrInvalidMove

\* C5 witness: position 9, by the mark whose turn it is, on a game in progress
C5_Witness ==
    /\ MoveOnSession
    /\ call.move.Position = BoardSize
    /\ call.move.Player = prev[call.id].CurrentTurn
    /\ Len(accepted[call.id]) = 3
    /\ call.err = ErrInvalidMove

\* C6 (as claimed): a MakeMove that targets an occupied cell fails with
\* ErrPositionTaken whatever the mark and the state of the session, store
\* unchanged.
C6_Original ==
    (MoveOnSession /\ call.move.Position \in Cells
                   /\ prev[call.id].Board[call.move.Position] # Empty) =>
        (call.err = ErrPositionTaken /\ games = prev)

\* C6 (amended): a MakeMove that targets an occupied cell always fails,
\* whatever its mark, and leaves the store unchanged: with ErrPositionTaken
\* when the session is not over, with ErrGameOver when it is.
C6_OccupiedRejected ==
    (MoveOnSession /\ call.move.Position \in Cells
                   /\ prev[call.id].Board[call.move.Position] # Empty) =>
        /\ games = prev
        /\ call.err = IF prev[call.id].IsOver THEN ErrGameOver ELSE ErrPositionTaken

\* C6 witness: the mark that is not on turn targets a cell held by the other
\* mark, on a game in progress
C6_Witness ==
    /\ MoveOnSession
    /\ call.move.Position \in Cells
    /\ prev[call.id].Board[call.move.Position] = PlayerX
    /\ call.move.Player = PlayerX
    /\ prev[call.id].CurrentTurn = PlayerO
    /\ call.err = ErrPositionTaken

\* C7 (as claimed): a MakeMove whose mark differs from CurrentTurn fails with
\* ErrNotYourTurn whatever the position and the state of the session, store
\* unchanged.
C7_Original ==
    (MoveOnSession /\ call.move.Player # prev[call.id].CurrentTurn) =>
        (call.err = ErrNotYourTurn /\ games = prev)

\* C7 (amended): a MakeMove whose mark differs from CurrentTurn always fails
\* and leaves the store unchanged: with ErrNotYourTurn when the session is not
\* over and the position is an empty cell of the board; otherwise with the
\* error of the earlier check (ErrGameOver, else ErrInvalidMove, else
\* ErrPositionTaken).
C7_WrongTurnRejected ==
    (MoveOnSession /\ call.move.Player # prev[call.id].CurrentTurn) =>
        /\ games = prev
        /\ call.err =
               IF prev[call.id].IsOver THEN ErrGameOver
               ELSE IF call.move.Position \notin Cells THEN ErrInvalidMove
               ELSE IF prev[call.id].Board[call.move.Position] # Empty
                    THEN ErrPositionTaken
               ELSE ErrNotYourTurn

\* C7 witness: X, when it is O's turn, targets an empty cell
C7_Witness ==
    /\ MoveOnSession
    /\ call.move.Player = PlayerX
    /\ prev[call.id].CurrentTurn = PlayerO
    /\ ~prev[call.id].IsOver
    /\ call.move.Position \in Cells
    /\ prev[call.id].Board[call.move.Position] = Empty
    /\ call.err = ErrNotYourTurn

\* C8: ResetGame on a session of the store, whatever its state, succeeds and
\* leaves under the same identifier a session with nine empty cells, turn X,
\* IsOver and IsDraw false and no winner, every other session untouched;
\* ResetGame on an unknown identifier fails with not-found, store unchanged.
C8_ResetRestores ==
    call.op = "ResetGame" =>
        IF call.id \in DOMAIN prev
        THEN /\ call.err = NoErr
             /\ DOMAIN games = DOMAIN prev
             /\ \A k \in DOMAIN prev \ {call.id} : games[k] = prev[k]
             /\ games[call.id].ID = call.id
             /\ \A c \in Cells : games[call.id].Board[c] = Empty
             /\ DOMAIN games[call.id].Board = Cells
             /\ games[call.id].CurrentTurn = PlayerX
             /\ ~games[call.id].IsOver
             /\ ~games[call.id].IsDraw
             /\ games[call.id].Winner = Empty
        ELSE /\ call.err = ErrNotFound
             /\ games = prev

\* C8 witness: a game that O won has been reset
C8_Witness ==
    /\ call.op = "ResetGame"
    /\ call.id \in DOMAIN prev
    /\ prev[call.id].Winner = PlayerO
    /\ prev[call.id].CurrentTurn = PlayerO
    /\ call.err = NoErr

\* C9 (as claimed): ResetGame leaves PlayerXJoined and PlayerOJoined as they were.
C9_ResetKeepsSeats ==
    (call.op = "ResetGame" /\ call.err = NoErr) =>
        /\ games[call.id].PlayerXJoined = prev[call.id].PlayerXJoined
        /\ games[call.id].PlayerOJoined = prev[call.id].PlayerOJoined

\* C10 (as claimed): for every session identifier and mark, at most one
\* CreateGame or JoinGame call ever succeeds in claiming that mark's seat: a
\* call that claims a seat finds it never claimed before.
C10_OneClaimPerSeat ==
    (call.op \in {"CreateGame", "JoinGame"} /\ call.err = NoErr
        /\ call.player \in {PlayerX, PlayerO}) =>
        call.player \notin claimed[call.id]

\* the seat flag of mark m in session g
Joined(g, m) == IF m = PlayerX THEN g.PlayerXJoined ELSE g.PlayerOJoined

\* C11: JoinGame fails with not-found on an unknown identifier, else with
\* ErrInvalidPlayer on a mark that is neither X nor O, else with ErrSlotTaken
\* when the seat of the mark is claimed, and every failure leaves the store
\* unchanged; otherwise it succeeds, sets the seat flag of the mark and
\* changes nothing else.
C11_JoinGameContract ==
    call.op = "JoinGame" =>
        IF call.id \notin DOMAIN prev
        THEN call.err = ErrNotFound /\ games = prev
        ELSE IF call.player \notin {PlayerX, PlayerO}
        THEN call.err = ErrInvalidPlayer /\ games = prev
        ELSE IF Joined(prev[call.id], call.player)
        THEN call.err = ErrSlotTaken /\ games = prev
        ELSE /\ call.err = NoErr
             /\ games = [prev EXCEPT ![call.id] =
                            IF call.player = PlayerX
                            THEN [@ EXCEPT !.PlayerXJoined = TRUE]
                            ELSE [@ EXCEPT !.PlayerOJoined = TRUE]]

\* C11 witness: O has joined a game that X created and in which moves were made
C11_Witness ==
    /\ call.op = "JoinGame"
    /\ call.player = PlayerO
    /\ call.err = NoErr
    /\ prev[call.id].PlayerXJoined
    /\ Len(accepted[call.id]) = 2
    /\ games[call.id].PlayerOJoined

\* C12: CreateGame never fails; the session it stores and returns has nine
\* empty cells, turn X whoever the creator is, IsOver and IsDraw false and no
\* winner; X's seat is claimed exactly when the creator is X, O's seat exactly
\* when the creator is O.
C12_CreateGameContract ==
    call.op = "CreateGame" =>
        /\ call.err = NoErr
        /\ call.id \in DOMAIN games
        /\ LET g == games[call.id]
           IN  /\ g.ID = call.id
               /\ DOMAIN g.Board = Cells
               /\ \A c \in Cells : g.Board[c] = Empty
               /\ g.CurrentTurn = PlayerX
               /\ ~g.IsOver /\ ~g.IsDraw /\ g.Winner = Empty
               /\ g.PlayerXJoined <=> call.player = PlayerX
               /\ g.PlayerOJoined <=> call.player = PlayerO

\* C12 witness: a game created by O
C12_Witness ==
    /\ call.op = "CreateGame"
    /\ call.player = PlayerO
    /\ games[call.id].PlayerOJoined
    /\ games[call.id].CurrentTurn = PlayerX

\* C13 (as claimed): the identifier CreateGame returns is no key of the store
\* it finds, so the sessions of the store are left as they were and the store
\* has one session more.
C13_NoCollision ==
    call.op = "CreateGame" =>
        /\ call.id \notin DOMAIN prev
        /\ \A k \in DOMAIN prev : games[k] = prev[k]
        /\ Cardinality(DOMAIN games) = Cardinality(DOMAIN prev) + 1

----------------------------------------------------------------------------
(* Properties of the Hub *)

\* Broadcast b has run both its loops and is about to release mu
Through(b) == bc[b].pc = "loops" /\ bc[b].ws = {} /\ bc[b].sse = {}

\* the observers registered for the session Broadcast b was called for; mu is
\* held for reading since the call, so they are those registered at the call
WSClientsOf(b) == hub.wsClients[bc[b].gameID]
SSEClientsOf(b) == hub.sseClients[bc[b].gameID]

\* the handler of observer o has registered for session id and not yet
\* unregistered
Observing(o, id) ==
    obs[o].pc \in {"open", "registered", "loop", "closing"} /\ obs[o].gameID = id

\* C16 as stated: when Broadcast has run its loops, every connection registered
\* for gameID has been written to and every channel registered for gameID has
\* had the state enqueued.
C16_Original ==
    \A b \in Broadcasters :
        Through(b) => /\ bc[b].wrote = WSClientsOf(b)
                      /\ bc[b].sent = SSEClientsOf(b)

\* C16: when Broadcast has run its loops, every connection registered for
\* gameID at the call has been written to, and every channel registered for
\* gameID at the call that was not full when its select ran has had the state
\* enqueued.
C16_BroadcastReachesAll ==
    \A b \in Broadcasters :
        Through(b) => /\ bc[b].wrote = WSClientsOf(b)
                      /\ SSEClientsOf(b) \ bc[b].full \subseteq bc[b].sent

C16_Witness ==
    \E b \in Broadcasters :
        /\ Through(b)
        /\ bc[b].wrote # {}
        /\ bc[b].sent # {}
        /\ bc[b].full # {}

\* C17: Broadcast for a session writes to no connection and enqueues on no
\* channel of an observer of another session: what Broadcast has written to or
\* extended is registered by a handler for its gameID, and every state a
\* channel holds is a state of the session its handler registered it for.
C17_OnlyOwnSession ==
    /\ \A b \in Broadcasters :
           bc[b].pc = "loops" =>
               /\ \A w \in bc[b].wrote : Observing(w, bc[b].gameID)
               /\ \A s \in bc[b].sent : Observing(s, bc[b].gameID)
    /\ \A s \in SSEChans :
           \A k \in 1..Len(chans[s].buf) : chans[s].buf[k].ID = obs[s].gameID

C17_Witness ==
    \E b \in Broadcasters, s, t \in SSEChans, w, v \in WSConns :
        /\ Through(b)
        /\ s \in bc[b].sent /\ w \in bc[b].wrote
        /\ \E id \in HubIDs \ {bc[b].gameID} : Observing(t, id) /\ Observing(v, id)
        /\ chans[t].buf = <<>>

\* C18: a channel never holds more than 10 states; a select on a full channel
\* leaves its queue as it was; when Broadcast has run its loops every
\* registered channel that was not full has the state; and Broadcast is never
\* waiting for a consumer: inside its loops its next step can always be taken.
C18_NeverBlocks ==
    /\ \A s \in SSEChans : Len(chans[s].buf) <= SSEBuffer
    /\ \A b \in Broadcasters :
           bc[b].pc = "loops" =>
               /\ bc[b].full \cap bc[b].sent = {}
               /\ Through(b) => SSEClientsOf(b) \ bc[b].full = bc[b].sent
               /\ \A w \in bc[b].ws : ENABLED BroadcastWrite(b, w)
               /\ bc[b].ws = {} => \A s \in bc[b].sse : ENABLED BroadcastSend(b, s)
               /\ Through(b) => ENABLED BroadcastLeave(b)

\* a select found one channel full while the other subscriber of the session
\* got the state, and no consumer has taken anything from the full channel
C18_Witness ==
    \E b \in Broadcasters, s, t \in SSEChans :
        /\ Through(b)
        /\ s \in bc[b].full /\ Len(chans[s].buf) = SSEBuffer
        /\ t \in bc[b].sent

\* C20: a channel is closed only by the UnregisterSSE its handler defers, which
\* has taken it out of the observer set: a closed channel is registered for no
\* session and its consumer loop has returned; and a handler that has returned
\* has closed its channel.
C20_ClosedMeansGone ==
    \A s \in SSEChans :
        /\ chans[s].closed =>
               /\ obs[s].pc = "returned"
               /\ \A id \in HubIDs : s \notin hub.sseClients[id]
        /\ obs[s].pc = "returned" => chans[s].closed

\* a channel closed with states still pending in it
C20_Witness ==
    \E s \in SSEChans : chans[s].closed /\ chans[s].buf # <<>>

----------------------------------------------------------------------------
(* Properties of the Service under concurrent requests *)

Count(board, m) == Cardinality({c \in Cells : board[c] = m})

\* what every session is between two completed calls of the Service: X has as
\* many marks as O or one more, a completed line means the game is over, and
\* while the game is on the turn is X's exactly when the marks are level
Committed(g) ==
    LET x == Count(g.Board, PlayerX)
        o == Count(g.Board, PlayerO)
    IN  /\ o <= x /\ x <= o + 1
        /\ HasLine(g.Board, PlayerX) \/ HasLine(g.Board, PlayerO) => g.IsOver
        /\ ~g.IsOver => g.CurrentTurn = IF x = o THEN PlayerX ELSE PlayerO

\* the store that the call req leaves when it runs alone on the store gs
Serial(gs, req) ==
    CASE req.op = "CreateGame" -> Store(gs, req.id, CreatedGame(req.id, req.player))
      [] req.op = "JoinGame" ->
            IF JoinGameErr(gs, req.id, req.player) = NoErr
            THEN [gs EXCEPT ![req.id] = ApplyJoin(@, req.player)] ELSE gs
      [] req.op = "ResetGame" ->
            IF ResetGameErr(gs, req.id) = NoErr
            THEN Store(gs, req.id, ResetState(gs[req.id], req.id)) ELSE gs
      [] req.op = "MakeMove" ->
            IF MakeMoveErr(gs, req.id, req.move) = NoErr
            THEN [gs EXCEPT ![req.id] = ApplyMove(@, req.move)] ELSE gs
      [] OTHER -> gs

\* goroutine t is inside MakeMove between its validation and its Unlock
InMove(t) == thr[t].pc \in {"cell", "flags"}

\* C14: a MakeMove that has validated holds mu until it has written; meanwhile
\* the store is what it validated against, but for its own cell, and what it
\* leaves is what the call leaves when run alone on that store.  So the calls
\* take effect one at a time in the order they take mu: between calls every
\* session is a state of a serial run, with never two marks from one turn.
C14_Serializable ==
    /\ \A t \in Threads :
           InMove(t) =>
               /\ mu = t
               /\ \A u \in Threads \ {t} : ~InMove(u)
               /\ thr[t].pc = "cell" => games = thr[t].at
               /\ thr[t].pc = "flags" =>
                      /\ games = [thr[t].at EXCEPT
                                     ![thr[t].req.id] = WriteCell(@, thr[t].req.move)]
                      /\ [games EXCEPT ![thr[t].req.id] = FinishMove(@)]
                             = Serial(thr[t].at, thr[t].req)
    /\ mu = Free => \A id \in DOMAIN games : Committed(games[id])

\* X's move is half applied under mu while a second move by X, for another
\* empty cell, has been called and waits
C14_Witness ==
    \E t, u \in Threads :
        /\ thr[t].pc = "flags" /\ thr[t].req.move.Player = PlayerX
        /\ thr[u].pc = "called" /\ thr[u].req.op = "MakeMove"
        /\ thr[u].req.move.Player = PlayerX
        /\ thr[u].req.move.Position # thr[t].req.move.Position
        /\ games[thr[u].req.id].Board[thr[u].req.move.Position] = Empty

\* C15: what the caller of GetGame reads through the returned pointer is a
\* session as it is between two completed calls of the Service.
C15_ReadsCommitted ==
    \A t \in Threads : thr[t].pc = "read" => Committed(thr[t].state)

----------------------------------------------------------------------------
(* Properties of the handlers *)

\* no handler is between its store call and the end of its Broadcast, and no
\* channel has a state pending
Quiescent ==
    /\ \A t \in Threads : thr[t].pc = "idle"
    /\ \A s \in SSEChans : chans[s].buf = <<>>

\* C19: when every handler has finished and nothing is pending (no channel
\* ever was full: fewer than SSEBuffer requests are taken), the state last
\* sent to each registered observer of a session is the session's state in
\* the store.
C19_LatestDelivered ==
    Quiescent =>
        \A o \in WSConns \cup SSEChans :
            obs[o].pc \in {"open", "loop"} /\ seen[o] # <<>>
                => seen[o] = games[obs[o].gameID]

----------------------------------------------------------------------------
(* Further properties of the store *)

\* the call that is returning is a MakeMove, JoinGame or GetGame on a session
\* of the store
OnSession == call # NoCall /\ call.id \in DOMAIN prev

\* C22: MakeMove returns the first rejection that applies, in the order not
\* found, game over, position outside 0..8, cell occupied, not the mover's
\* turn, and accepts the move exactly when none applies.
C22_FirstRejection ==
    call.op = "MakeMove" =>
        LET known == call.id \in DOMAIN prev
            g == prev[call.id]
            inRange == call.move.Position \in Cells
        IN  /\ ~known => call.err = ErrNotFound
            /\ known /\ g.IsOver => call.err = ErrGameOver
            /\ known /\ ~g.IsOver /\ ~inRange => call.err = ErrInvalidMove
            /\ known /\ ~g.IsOver /\ inRange
                   /\ g.Board[call.move.Position] # Empty
               => call.err = ErrPositionTaken
            /\ known /\ ~g.IsOver /\ inRange
                   /\ g.Board[call.move.Position] = Empty
                   /\ call.move.Player # g.CurrentTurn
               => call.err = ErrNotYourTurn
            /\ call.err = NoErr <=>
                   /\ known /\ ~g.IsOver /\ inRange
                   /\ g.Board[call.move.Position] = Empty
                   /\ call.move.Player = g.CurrentTurn

\* a move off the board by the mark whose turn it is not, on a finished game
C22_Witness ==
    /\ call.op = "MakeMove"
    /\ call.id \in DOMAIN prev
    /\ prev[call.id].IsOver
    /\ call.move.Position \notin Cells
    /\ call.move.Player # prev[call.id].CurrentTurn
    /\ call.err = ErrGameOver

\* C23: in a finished session CurrentTurn is the mark of the last accepted
\* move (in every state until the session is reset, when it is not finished
\* any more).
C23_NoFlipAtEnd ==
    \A id \in DOMAIN games :
        games[id].IsOver =>
            /\ accepted[id] # <<>>
            /\ games[id].CurrentTurn = accepted[id][Len(accepted[id])]

\* a drawn game, after a later call on it has returned
C23_Witness ==
    /\ OnSession
    /\ prev[call.id].IsDraw
    /\ call.id \in DOMAIN games
    /\ games[call.id].IsOver
    /\ Len(accepted[call.id]) = BoardSize

\* C24: a winner means no draw and game over; a draw means no winner and game
\* over; game over means a winner or a draw.
C24_Flags ==
    \A id \in DOMAIN games :
        LET g == games[id] IN
        /\ g.Winner # Empty => ~g.IsDraw /\ g.IsOver
        /\ g.IsDraw => g.Winner = Empty /\ g.IsOver
        /\ g.IsOver => g.Winner # Empty \/ g.IsDraw

\* the ninth move has filled the board and completed a line
C24_Witness ==
    \E id \in DOMAIN games :
        /\ NoEmptyCell(games[id].Board)
        /\ games[id].Winner = PlayerX
        /\ ~games[id].IsDraw

\* C25: the number of non-empty cells of a session is the number of moves
\* accepted on it since NewGameState made it; a rejected move and a JoinGame
\* leave both as they were.
C25_CellsCountMoves ==
    /\ \A id \in DOMAIN games :
           Cardinality({c \in Cells : games[id].Board[c] # Empty}) = Len(accepted[id])
    /\ OnSession /\ call.op \in {"MakeMove", "JoinGame"}
           /\ ~(call.op = "MakeMove" /\ call.err = NoErr)
       => games[call.id].Board = prev[call.id].Board

\* a JoinGame has returned on a session with one accepted move, X in the centre
C25_Witness ==
    /\ call.op = "JoinGame" /\ call.err = NoErr
    /\ Len(accepted[call.id]) = 1
    /\ games[call.id].Board[4] = PlayerX

\* C26: no call other than ResetGame changes a cell that holds X or O, and an
\* accepted MakeMove changes exactly one cell, from empty to the mover's mark.
C26_WriteOnce ==
    /\ OnSession /\ call.op # "ResetGame" =>
           \A c \in Cells :
               prev[call.id].Board[c] # Empty
                   => games[call.id].Board[c] = prev[call.id].Board[c]
    /\ MoveAccepted =>
           /\ prev[call.id].Board[call.move.Position] = Empty
           /\ games[call.id].Board[call.move.Position] = call.move.Player
           /\ \A c \in Cells \ {call.move.Position} :
                  games[call.id].Board[c] = prev[call.id].Board[c]

\* checkWinner with its eight conditions scanned from the last to the first
RECURSIVE checkWinnerBack(_, _)
checkWinnerBack(board, k) ==
    IF k < 1 THEN Empty
    ELSE LET w == winConditions[k] IN
         IF board[w[1]] # Empty /\ board[w[1]] = board[w[2]] /\ board[w[2]] = board[w[3]]
         THEN board[w[1]]
         ELSE checkWinnerBack(board, k - 1)

\* C27: on every board of the store at most one mark has a completed line, so
\* checkWinner finds the same mark whichever way it scans, and the Winner an
\* accepted move sets is the mover's mark.
C27_OneWinner ==
    /\ \A id \in DOMAIN games :
           LET b == games[id].Board IN
           /\ ~(HasLine(b, PlayerX) /\ HasLine(b, PlayerO))
           /\ checkWinner(b) = checkWinnerBack(b, Len(winConditions))
           /\ games[id].Winner = checkWinner(b)
    /\ MoveAccepted /\ games[call.id].Winner # Empty
           => games[call.id].Winner = call.move.Player

\* one move has completed two lines at once
C27_Witness ==
    /\ MoveAccepted
    /\ games[call.id].Winner = call.move.Player
    /\ Cardinality({l \in Lines : \A c \in l : games[call.id].Board[c] = call.move.Player}) = 2

\* C30: no JoinGame call returns ErrGameFull.
C30_NeverGameFull ==
    call.op = "JoinGame" => call.err # ErrGameFull

\* a JoinGame for a valid mark on a session whose seats are both claimed
C30_Witness ==
    /\ call.op = "JoinGame"
    /\ call.id \in DOMAIN prev
    /\ prev[call.id].PlayerXJoined /\ prev[call.id].PlayerOJoined
    /\ call.player \in {PlayerX, PlayerO}
    /\ call.err = ErrSlotTaken

----------------------------------------------------------------------------
(* Further properties of the handlers and the Hub *)

\* C29: what an SSE consumer takes out of its queue is the session as it was
\* right after the call that caused the broadcast: in every state in which the
\* consumer can take the head of its queue, what the head points to is the
\* session as that call left it.
C29_QueuedSnapshot ==
    \A s \in SSEChans :
        obs[s].pc = "loop" /\ chans[s].buf # <<>>
            => Deref(games, Head(chans[s].buf)) = Head(chans[s].due)

\* C28: a WriteJSON that fails inside Broadcast ends nothing but itself: when
\* Broadcast has run its loops, every other connection registered for the
\* session has been written to and every registered channel that was not full
\* has the state; and a connection is in the observer set of a session
\* exactly from its handler's RegisterWS to its handler's UnregisterWS,
\* whatever its writes returned.
C28_FailedWriteSkipsNobody ==
    /\ \A b \in Broadcasters :
           bc[b].pc = "loops" =>
               /\ bc[b].failed \subseteq WSClientsOf(b)
               /\ Through(b) =>
                      /\ bc[b].wrote \ bc[b].failed = WSClientsOf(b) \ bc[b].failed
                      /\ SSEClientsOf(b) \ bc[b].full \subseteq bc[b].sent
    /\ \A w \in WSConns, id \in HubIDs :
           w \in hub.wsClients[id]
               <=> obs[w].pc \in {"open", "closing"} /\ obs[w].gameID = id

\* one write failed, the other connection and a channel got the state
C28_Witness ==
    \E b \in Broadcasters :
        /\ Through(b)
        /\ bc[b].failed # {}
        /\ bc[b].wrote \ bc[b].failed # {}
        /\ bc[b].sent # {}

----------------------------------------------------------------------------
(* Properties of the two locks *)

\* goroutine t is inside a Hub operation that holds Hub.mu
HoldsHub(t) == thr[t].pc = "broadcasting" /\ thr[t].b \in hub.readers

\* the step of the store call that goroutine t has made and not begun
SvcBegin(t) ==
    \/ SvcCreateGame(t)
    \/ SvcJoinGame(t)
    \/ SvcResetGame(t)
    \/ SvcMakeMoveLock(t)
    \/ SvcGetGame(t)

\* a Broadcast is inside its loop with a websocket write still to come
WriteBlocked(b) == bc[b].pc = "loops" /\ bc[b].ws # {}

\* C21: the store lock and the hub lock are never held by one goroutine: a
\* goroutine inside Broadcast does not hold Service.mu, and Broadcast is
\* called only by a handler whose MakeMove or ResetGame has returned.  So
\* whatever a Broadcast is waiting for, Service.mu is held only by a MakeMove
\* whose next step can be taken, and when it is free every store call that
\* was made can take it: CreateGame, JoinGame, GetGame, MakeMove and ResetGame
\* complete.
C21_LocksApart ==
    /\ \A t \in Threads : ~(mu = t /\ thr[t].pc = "broadcasting")
    /\ \A t \in Threads : HoldsHub(t) =>
           /\ mu # t
           /\ thr[t].req.op \in {"MakeMove", "ResetGame"}
    /\ mu # Free => InMove(mu)
    /\ \A t \in Threads : InMove(t) =>
           ENABLED (SvcMakeMoveCell(t) \/ SvcMakeMoveFlags(t))
    /\ \A t \in Threads : (thr[t].pc = "called" /\ mu = Free) =>
           ENABLED SvcBegin(t)

\* one goroutine is inside Broadcast before a websocket write while the other
\* holds Service.mu inside MakeMove
C21_Witness ==
    \E t \in Threads, u \in Threads :
        /\ HoldsHub(t) /\ WriteBlocked(thr[t].b)
        /\ InMove(u) /\ mu = u

----------------------------------------------------------------------------
(* Properties of the board and the seats *)

\* C34: in every session every cell is X, O or empty, X has as many cells as
\* O or one more, and while the session is not over CurrentTurn is X exactly
\* when the two have as many; a move with a mark other than X or O is
\* rejected and leaves the store unchanged.
C34_BoardBalanced ==
    /\ \A id \in DOMAIN games :
           LET g == games[id]
               x == Count(g.Board, PlayerX)
               o == Count(g.Board, PlayerO)
           IN  /\ \A c \in Cells : g.Board[c] \in {PlayerX, PlayerO, Empty}
               /\ x - o \in {0, 1}
               /\ ~g.IsOver => (g.CurrentTurn = PlayerX <=> x = o)
    /\ (call.op = "MakeMove" /\ call.move.Player \notin {PlayerX, PlayerO}) =>
           (call.err # NoErr /\ games = prev)

\* a move with the empty mark was tried on a free cell of a session that is
\* not over and where X has one cell more than O
C34_Witness ==
    /\ OnSession /\ call.op = "MakeMove"
    /\ call.move.Player = Empty
    /\ call.move.Position \in Cells
    /\ LET g == games[call.id] IN
           /\ ~g.IsOver
           /\ g.Board[call.move.Position] = Empty
           /\ Count(g.Board, PlayerX) = Count(g.Board, PlayerO) + 1

\* the seat flags of a session
Seats(g) == <<g.PlayerXJoined, g.PlayerOJoined>>

\* C35: MakeMove leaves both seat flags as they were, accepted or rejected,
\* and a move of the mark that has the turn, on a free cell of a session that
\* is not over, is accepted whatever the seat flags are.
C35_MovesIgnoreSeats ==
    (OnSession /\ call.op = "MakeMove") =>
        LET g == prev[call.id] IN
        /\ Seats(games[call.id]) = Seats(g)
        /\ ( /\ ~g.IsOver
             /\ call.move.Position \in Cells
             /\ g.Board[call.move.Position] = Empty
             /\ call.move.Player = g.CurrentTurn ) => call.err = NoErr

\* a move was accepted from a mark whose seat nobody has claimed, in a
\* session where the other seat is claimed
C35_Witness ==
    /\ MoveAccepted
    /\ ~Joined(games[call.id], call.move.Player)
    /\ Joined(games[call.id], SwitchTurn(call.move.Player))

----------------------------------------------------------------------------
(* Properties of the Hub under concurrent handlers *)

\* C32: every channel the second loop of a Broadcast has still to send to is
\* open, and no channel is closed twice: a closed channel belongs to a handler
\* that has returned, and the channel of a handler whose deferred UnregisterSSE
\* is still to run is open.
C32_SendsOnOpen ==
    /\ \A b \in Broadcasters : bc[b].pc = "loops" =>
           \A s \in bc[b].sse : ~chans[s].closed
    /\ \A s \in SSEChans :
           /\ chans[s].closed => obs[s].pc = "returned"
           /\ ENABLED SSEClose(s) => ~chans[s].closed

\* a Broadcast has still to send to the channel of a handler that has left
\* its loop and waits for Hub.mu to unregister and close it
C32_Witness ==
    \E b \in Broadcasters, s \in SSEChans :
        /\ bc[b].pc = "loops"
        /\ s \in bc[b].sse
        /\ obs[s].pc = "closing"

\* C33: while a Broadcast for one session is inside its first loop before a
\* websocket write, the handlers of the other sessions can register and
\* unregister: RegisterWS, RegisterSSE, UnregisterWS and UnregisterSSE for
\* another session identifier can be taken.
C33_OthersProceed ==
    \A b \in Broadcasters : WriteBlocked(b) =>
        \A id \in HubIDs \ {bc[b].gameID} :
            /\ \A w \in WSConns :
                   /\ obs[w].pc = "idle" => ENABLED WSOpen(w, id)
                   /\ (obs[w].pc = "closing" /\ obs[w].gameID = id) =>
                          ENABLED WSClose(w)
            /\ \A s \in SSEChans :
                   /\ obs[s].pc = "idle" => ENABLED SSEOpen(s, id)
                   /\ (obs[s].pc = "closing" /\ obs[s].gameID = id) =>
                          ENABLED SSEClose(s)

\* the goroutines inside conn.WriteJSON on the connection w: the handlers
\* whose Broadcast is writing to it and the handler that owns it
Writers(w) ==
    {t \in Threads : thr[t].pc = "loops" /\ thr[t].writing = w}
        \cup (IF obs[w].pc = "writing" THEN {w} ELSE {})

\* C31: at most one goroutine is inside WriteJSON on a websocket connection
\* at any time.
C31_OneWriter ==
    \A w \in WSConns : Cardinality(Writers(w)) <= 1

====
